---- MODULE Spec2Model ----
(***************************************************************************)
(* Host-event handling of the jparty session server                        *)
(* (server/session/handle-host-event.ts).                                  *)
(*                                                                         *)
(* Every handler of the dispatch table is one action.  The handlers are    *)
(* synchronous and run to completion on node's single thread, except       *)
(* handleGenerateCustomGame, which suspends at its await: it is modelled   *)
(* as a start action and a resume action.                                  *)
(*                                                                         *)
(* session-utils.js, the Session class and the game flow that starts       *)
(* timers and narration are not part of the sources at hand; they are      *)
(* modelled from the design document (sections 3 to 5).                    *)
(*                                                                         *)
(* Five specifications share the actions:                                  *)
(*   Spec          the registry and membership: three connections, two     *)
(*                 session names, Connect, AttemptSpectate, LeaveSession;  *)
(*   SpecLobby     settings, custom games, playing again and the router's  *)
(*                 catch block: one session name, two connections;         *)
(*   SpecTimers    narration and its timers: one session name, two         *)
(*                 connections, the reading phases, timers armed,          *)
(*                 restarted and coming due;                               *)
(*   SpecTeardown  leaving while timers are armed: one session name, two   *)
(*                 connections;                                            *)
(*   SpecConnect   handleConnect's retry loop pass by pass, with a fair    *)
(*                 word generator.                                         *)
(***************************************************************************)
EXTENDS Integers, Sequences, FiniteSets, TLC

\* ------------------------------------------------------------------ bounds

\* The longest duration, in seconds, that a report or an estimate carries.
MaxDurSec == 2
\* How many handleGenerateCustomGame calls may be suspended at once.
MaxPending == 1
\* How many timers the game flow keeps armed at once.
MaxArmed == 1

\* const durationMs = durationSec * 1000
MsPerSec == 1000

\* ------------------------------------------------------------- value sets

Sockets == {"s1", "s2", "s3"}
\* The clients that send events where one connection only listens.
Senders == {"s1", "s2"}
Names == {"ant", "bee"}
NoName == "undefined"

\* The words generateRandomWord draws from, per specification.
Words == Names
OneWord == {"ant"}

SessionState ==
    {"Lobby", "ClueSelection", "ReadingCategoryNames", "ReadingClueSelection",
     "ReadingClue", "ClueTossup", "ClueResponse", "WaitingForClueDecision",
     "ReadingClueDecision", "WagerResponse", "GameOver"}

\* The phases the game flow of Spec moves a session to: one phase of a running
\* game and the end of the game (the handlers Spec is about compare the state
\* with Lobby and GameOver only).
LobbyPhases == {"ClueSelection", "GameOver"}
\* The phases the narration specification plays through: the three reading
\* phases, one phase without narration timers, and the end of the game.
ReadingPhases ==
    {"ReadingCategoryNames", "ReadingClueSelection", "ReadingClue",
     "ClueSelection", "GameOver"}

SessionTimeoutType ==
    {"Announcement", "ReadingCategoryName", "ReadingClueSelection", "ReadingClue"}

TriviaGameSettingsPreset == {"Normal", "Party", "Custom"}
VoiceType == {"ClassicMasculine", "ModernMasculine"}
VoiceLines == {"A", "B"}
NoLine == "none"

DurationsSec == 1..MaxDurSec

\* The registry's answer for a name it does not hold.
NoSession == [absent |-> TRUE]

VARIABLES
    sessions,   \* the registry: session name -> Session, or NoSession
    timeouts,   \* the timer registry: the set of armed one-shot timers
    sock,       \* per connection: socket.sessionName and the rooms it joined
    pending,    \* handleGenerateCustomGame calls suspended at their await
    hung,       \* the event loop is stuck in handleConnect's retry loop
    ev,         \* the event handled by the last step, and the connection
    out,        \* what the last step emitted, in order
    calls       \* the collaborator calls of the last step, in order

vars == <<sessions, timeouts, sock, pending, hung, ev, out, calls>>

\* ---------------------------------------------------------------- helpers

SeqToSet(s) == {s[i] : i \in 1..Len(s)}

Event(op, socket) == [op |-> op, socket |-> socket]

Emission(type, to, arg) == [type |-> type, to |-> to, arg |-> arg]

getSession(name) ==
    IF name \in Names THEN sessions[name] ELSE NoSession

LiveNames == {n \in Names : sessions[n] # NoSession}

\* new Session(name, creatorSocketID, clientID): in Lobby, the creator its
\* first host.
newSession(creator) ==
    [creatorSocketID |-> creator,
     state |-> "Lobby",
     hosts |-> {creator},
     triviaGameSettingsPreset |-> "Normal",
     voiceType |-> "ClassicMasculine",
     currentVoiceLine |-> NoLine,
     currentAnnouncement |-> FALSE]

\* createSession(name, creatorSocketID, clientID): the registry after the call.
\* It fails, storing nothing, when the name is already present.
createSession(reg, name, creator) ==
    IF reg[name] # NoSession THEN reg
    ELSE [reg EXCEPT ![name] = newSession(creator)]

\* joinSessionAsHost(socket, sessionName): the connection joins the room named
\* after the session and records the session as its current one.
joinSessionAsHost(sk, s, name) ==
    [sk EXCEPT ![s] = [sessionName |-> name, rooms |-> @.rooms \cup {name}]]

\* io.to(rooms): the connections in any of the rooms; every connection is in
\* the room named by its own id.  With no room given socket.io addresses
\* every connection.
ioTo(ids) == IF ids = {} THEN Sockets ELSE ids

\* socket.broadcast.to(sessionName): the connections that joined the session's
\* room, the sender excepted.
broadcastTo(sk, s, name) == {x \in Sockets \ {s} : name \in sk[x].rooms}

\* ------------------------------------------------------------------- Init

Init ==
    /\ sessions = [n \in Names |-> NoSession]
    /\ timeouts = {}
    /\ sock = [s \in Sockets |-> [sessionName |-> NoName, rooms |-> {}]]
    /\ pending = {}
    /\ hung = FALSE
    /\ ev = Event("none", "none")
    /\ out = <<>>
    /\ calls = <<>>

\* ------------------------------------------------------------- handleConnect

\* The loop without its condition: the first word generated is taken.
firstGeneratedName(words) == words

\* The values the do-while loop can leave in sessionName: it only exits on a
\* word for which getSession returned absent.
generatedNames(words) == {n \in words : getSession(n) = NoSession}

handleConnect(s, words) ==
    /\ ~hung
    /\ ev' = Event("Connect", s)
    /\ out' = <<>>
    /\ IF generatedNames(words) = {}
       THEN \* every word collides: the loop never exits
            /\ hung' = TRUE
            /\ calls' = <<>>
            /\ UNCHANGED <<sessions, sock>>
       ELSE \E n \in generatedNames(words) :
            /\ sessions' = createSession(sessions, n, s)
            /\ sock' = joinSessionAsHost(sock, s, n)
            /\ calls' = <<[fn |-> "createSession", name |-> n]>>
            /\ UNCHANGED hung
    /\ UNCHANGED <<timeouts, pending>>

\* The same handler, one pass of its do-while loop at a time.  Node runs a
\* handler to completion, so while the loop of connection s repeats, ev is
\* Event("ConnectRetry", s) and no other handler starts.

Idle == ev.op # "ConnectRetry"

loopRepeatsAlways(w) == TRUE

\* while (getSession(sessionName))
loopRepeats(w) == getSession(w) # NoSession

connectIteration(s, w) ==
    /\ ~hung
    /\ Idle \/ ev = Event("ConnectRetry", s)
    /\ IF loopRepeats(w)
       THEN /\ ev' = Event("ConnectRetry", s)
            /\ calls' = <<[fn |-> "getSession", name |-> w]>>
            /\ UNCHANGED <<sessions, sock>>
       ELSE /\ ev' = Event("Connect", s)
            /\ sessions' = createSession(sessions, w, s)
            /\ sock' = joinSessionAsHost(sock, s, w)
            /\ calls' = <<[fn |-> "createSession", name |-> w,
                           afterRetry |-> ~Idle]>>
    /\ out' = <<>>
    /\ UNCHANGED <<timeouts, pending, hung>>

\* ------------------------------------------- handleUpdateGameSettingsPreset

mayUpdatePresetAnyone(s, session) ==
    /\ session # NoSession
    /\ session.state = "Lobby"

\* The two early returns of the handler.
mayUpdatePreset(s, session) ==
    /\ session # NoSession
    /\ session.state = "Lobby"
    /\ s = session.creatorSocketID

presetAudienceWithActor(s, session) == ioTo(session.hosts)

\* io.to(Object.keys(session.hosts)).except(socket.id)
presetAudience(s, session) == ioTo(session.hosts) \ {s}

handleUpdateGameSettingsPreset(s, preset) ==
    LET name == sock[s].sessionName
        session == getSession(name)
    IN  /\ ~hung
        /\ ev' = Event("UpdateGameSettingsPreset", s)
        /\ IF mayUpdatePreset(s, session)
           THEN /\ sessions' = [sessions EXCEPT
                                  ![name].triviaGameSettingsPreset = preset]
                /\ out' = <<Emission("UpdateGameSettingsPreset",
                                     presetAudience(s, session), preset)>>
           ELSE /\ out' = <<>>
                /\ UNCHANGED sessions
        /\ calls' = <<>>
        /\ UNCHANGED <<timeouts, sock, pending, hung>>

\* ------------------------------------------------------ handleUpdateVoiceType

\* io.to(Object.keys(session.hosts))
voiceTypeAudience(s, session) == ioTo(session.hosts)

handleUpdateVoiceType(s, voiceType) ==
    LET name == sock[s].sessionName
        session == getSession(name)
    IN  /\ ~hung
        /\ ev' = Event("UpdateVoiceType", s)
        /\ IF session # NoSession
           THEN /\ sessions' = [sessions EXCEPT ![name].voiceType = voiceType]
                /\ out' = <<Emission("UpdateVoiceType",
                                     voiceTypeAudience(s, session), voiceType)>>
           ELSE /\ out' = <<>>
                /\ UNCHANGED sessions
        /\ calls' = <<>>
        /\ UNCHANGED <<timeouts, sock, pending, hung>>

\* -------------------------------------------------- handleUpdateVoiceDuration

Timer(name, kind, durationMs) ==
    [session |-> name, kind |-> kind, durationMs |-> durationMs]

TimersOf(ts, name, kind) == {t \in ts : t.session = name /\ t.kind = kind}

\* restartTimeout(sessionName, kind, durationMs): the armed timer of that
\* session and kind is cancelled and armed again with the new duration.  The
\* call carries no callback, so a kind with no timer known stays without one.
restartTimeout(ts, name, kind, durationMs) ==
    IF TimersOf(ts, name, kind) = {} THEN ts
    ELSE (ts \ TimersOf(ts, name, kind)) \cup {Timer(name, kind, durationMs)}

\* Arming a second timer beside the one that is armed.
armWithoutCancel(ts, name, kind, durationMs) ==
    IF TimersOf(ts, name, kind) = {} THEN ts
    ELSE ts \cup {Timer(name, kind, durationMs)}

Restart(kind, durationMs) ==
    [fn |-> "restartTimeout", kind |-> kind, durationMs |-> durationMs]

RECURSIVE restartAll(_, _, _)
restartAll(ts, name, cs) ==
    IF cs = <<>> THEN ts
    ELSE restartAll(restartTimeout(ts, name, Head(cs).kind, Head(cs).durationMs),
                    name, Tail(cs))

RECURSIVE armAll(_, _, _)
armAll(ts, name, cs) ==
    IF cs = <<>> THEN ts
    ELSE armAll(armWithoutCancel(ts, name, Head(cs).kind, Head(cs).durationMs),
                name, Tail(cs))

\* The handler's timer calls, applied in order.
applyRestarts(ts, name, cs) == restartAll(ts, name, cs)

acceptsFromAnyone(s, session, voiceLine) ==
    /\ session # NoSession
    /\ voiceLine = session.currentVoiceLine

acceptsAnyVoiceLine(s, session, voiceLine) ==
    /\ session # NoSession
    /\ s = session.creatorSocketID

\* The three early returns of handleUpdateVoiceDuration.
acceptsDuration(s, session, voiceLine) ==
    /\ session # NoSession
    /\ s = session.creatorSocketID
    /\ voiceLine = session.currentVoiceLine

\* The switch on session.state, as written: the first case has no break and
\* runs into the second.
phaseRestarts(state, durationMs) ==
    CASE state = "ReadingCategoryNames" ->
             <<Restart("ReadingCategoryName", durationMs),
               Restart("ReadingClueSelection", durationMs)>>
      [] state = "ReadingClueSelection" ->
             <<Restart("ReadingClueSelection", durationMs)>>
      [] state = "ReadingClue" ->
             <<Restart("ReadingClue", durationMs)>>
      [] OTHER -> <<>>

\* The announcement corrected only when the state selects no phase timeout.
announcementRestartElse(session, durationMs) ==
    IF /\ session.currentAnnouncement
       /\ session.state \notin {"ReadingCategoryNames", "ReadingClueSelection",
                                "ReadingClue"}
    THEN <<Restart("Announcement", durationMs)>>
    ELSE <<>>

announcementRestart(session, durationMs) ==
    IF session.currentAnnouncement
    THEN <<Restart("Announcement", durationMs)>>
    ELSE <<>>

handleUpdateVoiceDuration(s, voiceLine, durationSec) ==
    LET name == sock[s].sessionName
        session == getSession(name)
        durationMs == durationSec * MsPerSec
        cs == announcementRestart(session, durationMs)
              \o phaseRestarts(session.state, durationMs)
    IN  /\ ~hung
        /\ ev' = Event("UpdateVoiceDuration", s)
        /\ IF acceptsDuration(s, session, voiceLine)
           THEN /\ calls' = cs
                /\ timeouts' = applyRestarts(timeouts, name, cs)
           ELSE /\ calls' = <<>>
                /\ UNCHANGED timeouts
        /\ out' = <<>>
        /\ UNCHANGED <<sessions, sock, pending, hung>>

\* ----------------------------------------------------------- handleLeaveSession
\* The handler is also called by handleAttemptSpectate, so its body is a
\* function of the server state st = [sessions, timeouts, pending, out, calls].

ServerState ==
    [sessions |-> sessions, timeouts |-> timeouts, pending |-> pending,
     out |-> <<>>, calls |-> <<>>]

sessionIn(st, name) == IF name \in Names THEN st.sessions[name] ELSE NoSession

\* session.disconnectHost(socketID)
disconnectHost(st, name, s) ==
    [st EXCEPT
       !.sessions = [@ EXCEPT ![name].hosts = @ \ {s}],
       !.calls = @ \o <<[fn |-> "disconnectHost",
                         removed |-> s \in st.sessions[name].hosts]>>]

\* deleteSession(name): the session leaves the registry and every timer it
\* owns is cancelled.  A handler suspended on the session keeps its reference
\* to the Session object, whose hosts no longer change.
deleteSession(st, name) ==
    [st EXCEPT
       !.sessions = [@ EXCEPT ![name] = NoSession],
       !.timeouts = {t \in @ : t.session # name},
       !.pending = {IF p.attached /\ p.name = name
                    THEN [p EXCEPT !.attached = FALSE,
                                   !.hosts = st.sessions[name].hosts]
                    ELSE p : p \in @},
       !.calls = @ \o <<[fn |-> "deleteSession",
                         cancelled |-> {t.kind : t \in
                                          {u \in st.timeouts : u.session = name}}]>>]

cancelGame(st, sk, s, name) ==
    [st EXCEPT !.out = @ \o <<Emission("CancelGame", broadcastTo(sk, s, name), "")>>]

leaveNeverDeletes(st, sk, s, name) ==
    IF sessionIn(st, name) = NoSession THEN st
    ELSE disconnectHost(st, name, s)

leaveAlwaysDeletes(st, sk, s, name) ==
    IF sessionIn(st, name) = NoSession THEN st
    ELSE cancelGame(deleteSession(disconnectHost(st, name, s), name), sk, s, name)

leaveWithoutNotice(st, sk, s, name) ==
    IF sessionIn(st, name) = NoSession THEN st
    ELSE IF s = sessionIn(st, name).creatorSocketID
         THEN deleteSession(disconnectHost(st, name, s), name)
         ELSE disconnectHost(st, name, s)

leaveSession(st, sk, s, name) ==
    IF sessionIn(st, name) = NoSession THEN st
    ELSE IF s = sessionIn(st, name).creatorSocketID
         THEN cancelGame(deleteSession(disconnectHost(st, name, s), name),
                         sk, s, name)
         ELSE disconnectHost(st, name, s)

handleLeaveSession(s) ==
    LET after == leaveSession(ServerState, sock, s, sock[s].sessionName)
    IN  /\ ~hung
        /\ ev' = Event("LeaveSession", s)
        /\ sessions' = after.sessions
        /\ timeouts' = after.timeouts
        /\ pending' = after.pending
        /\ out' = after.out
        /\ calls' = after.calls
        /\ UNCHANGED <<sock, hung>>

\* -------------------------------------------------------- handleAttemptSpectate

\* session.connectHost(socketID, clientID)
connectHost(reg, name, s) == [reg EXCEPT ![name].hosts = @ \cup {s}]

\* What line 111 can read in socket.sessionName.  joinSessionAsHost has run by
\* then; whether its write of the new name is already visible depends on code
\* that is not at hand, so the previous and the new name are both outcomes.
sessionNameAfterJoin(s, name) == {sock[s].sessionName, name}

spectateRejectedIfUnknown(s, session) == session = NoSession

\* The two rejections: no such session, already a host of it.
spectateRejected(s, session) ==
    \/ session = NoSession
    \/ s \in session.hosts

spectateError(session) ==
    IF session = NoSession THEN "error: couldn't find session"
    ELSE "error: already a host"

handleAttemptSpectate(s, name) ==
    LET session == getSession(name)
    IN  /\ ~hung
        /\ ev' = Event("AttemptSpectate", s)
        /\ UNCHANGED hung
        /\ IF spectateRejected(s, session)
           THEN /\ out' = <<Emission("Message", {s}, spectateError(session))>>
                /\ calls' = <<>>
                /\ UNCHANGED <<sessions, timeouts, sock, pending>>
           ELSE \E current \in sessionNameAfterJoin(s, name) :
                LET joined == [sessions |-> connectHost(sessions, name, s),
                               timeouts |-> timeouts,
                               pending |-> pending,
                               out |-> <<Emission("Message", {s}, "joined")>>,
                               calls |-> <<[fn |-> "connectHost", name |-> name]>>]
                    sk == joinSessionAsHost(sock, s, name)
                    after == leaveSession(joined, sk, s, current)
                IN  /\ sock' = sk
                    /\ sessions' = after.sessions
                    /\ timeouts' = after.timeouts
                    /\ pending' = after.pending
                    /\ out' = after.out
                    /\ calls' = after.calls

\* ----------------------------------------------------- handleGenerateCustomGame

mayGenerateAnyone(s, session) ==
    /\ session # NoSession
    /\ session.state = "Lobby"

mayGenerateInAnyState(s, session) ==
    /\ session # NoSession
    /\ s = session.creatorSocketID

\* The two early returns before the await.
mayGenerate(s, session) ==
    /\ session # NoSession
    /\ session.state = "Lobby"
    /\ s = session.creatorSocketID

\* Suspended handlers are told apart by a number: two requests of one
\* connection are two handlers.
freeHandlerId ==
    CHOOSE i \in 1..(MaxPending + 1) : \A p \in pending : p.id # i

\* Up to the await of session.generateTriviaGame(gameSettings).  callback
\* tells whether the client sent an acknowledgement function with the event;
\* the handler keeps it until it resumes.
handleGenerateCustomGame(s, callback) ==
    LET name == sock[s].sessionName
        session == getSession(name)
    IN  /\ ~hung
        /\ ev' = Event("GenerateCustomGame", s)
        /\ IF mayGenerate(s, session)
           THEN /\ Cardinality(pending) < MaxPending
                /\ pending' = pending \cup
                     {[id |-> freeHandlerId, socket |-> s, name |-> name,
                       attached |-> TRUE, hosts |-> {}, callback |-> callback]}
                /\ calls' = <<[fn |-> "generateTriviaGame", name |-> name]>>
           ELSE /\ calls' = <<>>
                /\ UNCHANGED pending
        /\ out' = <<>>
        /\ UNCHANGED <<sessions, timeouts, sock, hung>>

\* emitTriviaRoundUpdate(sessionName): to the session's hosts, when it is live.
emitTriviaRoundUpdate(reg, name) ==
    IF name \in Names /\ reg[name] # NoSession
    THEN <<Emission("TriviaRoundUpdate", ioTo(reg[name].hosts), "")>>
    ELSE <<>>

acknowledgeSuccessOnly(p, ok) ==
    IF p.callback /\ ok THEN <<Emission("Ack", {p.socket}, "true")>> ELSE <<>>

\* callback(true) / callback(false): the acknowledgement reaches the client
\* when the event came with one.
acknowledge(p, ok) ==
    IF p.callback
    THEN <<Emission("Ack", {p.socket}, IF ok THEN "true" ELSE "false")>>
    ELSE <<>>

\* Without an acknowledgement function callback is undefined and calling it
\* throws a TypeError.  The handler is async and handleHostEvent does not
\* await it, so the error rejects the handler's promise outside the router's
\* try block.
callbackThrows(p) ==
    IF p.callback THEN <<>>
    ELSE <<[fn |-> "unhandledRejection", socket |-> p.socket]>>

\* emitServerError(e, socket): an error-flagged message to the connection.
emitServerError(s, text) == <<Emission("Message", {s}, text)>>

\* From the await on: the generator succeeded (ok) or threw.
resumeGenerateCustomGame(p, ok) ==
    LET hostsOfObject == IF p.attached THEN sessions[p.name].hosts ELSE p.hosts
    IN  /\ ~hung
        /\ p \in pending
        /\ pending' = pending \ {p}
        /\ ev' = Event(IF ok THEN "CustomGameGenerated" ELSE "CustomGameFailed",
                       p.socket)
        /\ IF ok
           THEN /\ sessions' =
                     IF p.attached
                     THEN [sessions EXCEPT
                             ![p.name].triviaGameSettingsPreset = "Custom"]
                     ELSE sessions
                /\ out' = <<Emission("UpdateGameSettingsPreset",
                                     ioTo(hostsOfObject), "Custom"),
                            Emission("Message", {p.socket}, "saved")>>
                          \o emitTriviaRoundUpdate(sessions, p.name)
                          \o acknowledge(p, TRUE)
           ELSE /\ out' = emitServerError(p.socket, "error: generation")
                          \o acknowledge(p, FALSE)
                /\ UNCHANGED sessions
        /\ calls' = callbackThrows(p)
        /\ UNCHANGED <<timeouts, sock, hung>>

\* --------------------------------------------------------------- handlePlayAgain

\* session.resetGame()
resetGame(session) == [session EXCEPT !.state = "Lobby"]

mayPlayAgainInAnyState(session) == session # NoSession

\* The early return of the handler.
mayPlayAgain(session) ==
    /\ session # NoSession
    /\ session.state = "GameOver"

handlePlayAgain(s) ==
    LET name == sock[s].sessionName
        session == getSession(name)
    IN  /\ ~hung
        /\ ev' = Event("PlayAgain", s)
        /\ IF mayPlayAgain(session)
           THEN /\ sessions' = [sessions EXCEPT ![name] = resetGame(session)]
                /\ out' = <<Emission("StateUpdate", ioTo(session.hosts), "Lobby")>>
                          \o emitTriviaRoundUpdate(sessions, name)
                          \o <<Emission("LeaderboardUpdate", {s}, "")>>
                /\ calls' = <<[fn |-> "resetGame", name |-> name]>>
           ELSE /\ out' = <<>>
                /\ calls' = <<>>
                /\ UNCHANGED sessions
        /\ UNCHANGED <<timeouts, sock, pending, hung>>

\* ------------------------------------------------------------- handleHostEvent

\* The catch block of the router: a synchronous handler called inside the try
\* block threw, here at its first collaborator call, before it changed
\* anything; the error goes to the connection with emitServerError.
routerCatches(s) ==
    /\ ~hung
    /\ ev' = Event("HandlerThrew", s)
    /\ out' = emitServerError(s, "error: server")
    /\ calls' = <<>>
    /\ UNCHANGED <<sessions, timeouts, sock, pending, hung>>

\* ------------------------------------------------------------------ game flow
\* The game logic that drives a session between host events: it moves the
\* session through its phases, starts narration and announcements, and arms
\* the phase timers with estimated durations.

gameAdvance(n, state) ==
    /\ ~hung
    /\ sessions[n] # NoSession
    /\ sessions[n].state # "GameOver"
    /\ state \notin {"Lobby", sessions[n].state}
    /\ sessions' = [sessions EXCEPT ![n].state = state]
    /\ ev' = Event("GameAdvance", "none")
    /\ out' = <<>>
    /\ calls' = <<>>
    /\ UNCHANGED <<timeouts, sock, pending, hung>>

playVoice(n, voiceLine) ==
    /\ ~hung
    /\ sessions[n] # NoSession
    /\ sessions[n].state # "Lobby"
    /\ voiceLine # sessions[n].currentVoiceLine
    /\ sessions' = [sessions EXCEPT ![n].currentVoiceLine = voiceLine]
    /\ ev' = Event("PlayVoice", "none")
    /\ out' = <<>>
    /\ calls' = <<>>
    /\ UNCHANGED <<timeouts, sock, pending, hung>>

setAnnouncement(n, shown) ==
    /\ ~hung
    /\ sessions[n] # NoSession
    /\ sessions[n].state # "Lobby"
    /\ shown # sessions[n].currentAnnouncement
    /\ sessions' = [sessions EXCEPT ![n].currentAnnouncement = shown]
    /\ ev' = Event("Announcement", "none")
    /\ out' = <<>>
    /\ calls' = <<>>
    /\ UNCHANGED <<timeouts, sock, pending, hung>>

\* schedule(session, kind, durationMs, onFire): cancel the timer of that
\* session and kind, if any, then arm a new one.
startTimeout(n, kind, durationSec) ==
    /\ ~hung
    /\ sessions[n] # NoSession
    /\ sessions[n].state # "Lobby"
    /\ \/ TimersOf(timeouts, n, kind) # {}
       \/ Cardinality(timeouts) < MaxArmed
    /\ timeouts' = (timeouts \ TimersOf(timeouts, n, kind))
                   \cup {Timer(n, kind, durationSec * MsPerSec)}
    /\ timeouts' # timeouts
    /\ ev' = Event("StartTimeout", "none")
    /\ out' = <<>>
    /\ calls' = <<>>
    /\ UNCHANGED <<sessions, sock, pending, hung>>

\* An armed timer comes due: it leaves the registry and its callback runs.
timeoutFired(t) ==
    /\ ~hung
    /\ t \in timeouts
    /\ timeouts' = timeouts \ {t}
    /\ ev' = Event("TimeoutFired", "none")
    /\ out' = <<>>
    /\ calls' = <<[fn |-> "onFire", session |-> t.session, kind |-> t.kind,
                   durationMs |-> t.durationMs]>>
    /\ UNCHANGED <<sessions, sock, pending, hung>>

\* ------------------------------------------------------------- specifications

\* handleHostEvent for the two events a client may send before it is in a
\* session.
PreSessionEvent(clients, words) ==
    \/ \E s \in clients : handleConnect(s, words)
    \/ \E s \in clients, name \in Names : handleAttemptSpectate(s, name)

\* handleHostEvent for the events that decide who is in which session: one
\* inbound event of a client, dispatched to its handler.
HostEvent(clients, words) ==
    \/ PreSessionEvent(clients, words)
    \/ \E s \in clients : handleLeaveSession(s)

\* The registry and membership: every client, two session names.
Next ==
    \/ HostEvent(Sockets, Words)
    \/ \E n \in Names, state \in LobbyPhases : gameAdvance(n, state)

Spec == Init /\ [][Next]_vars

\* The lobby: settings, custom games and playing again, for one session name
\* and two clients (the third connection never sends).
NextLobby ==
    \/ HostEvent(Senders, OneWord)
    \/ \E s \in Senders, preset \in TriviaGameSettingsPreset :
          handleUpdateGameSettingsPreset(s, preset)
    \/ \E s \in Senders, voiceType \in VoiceType :
          handleUpdateVoiceType(s, voiceType)
    \/ \E s \in Senders, callback \in BOOLEAN :
          handleGenerateCustomGame(s, callback)
    \/ \E p \in pending, ok \in BOOLEAN : resumeGenerateCustomGame(p, ok)
    \/ \E s \in Senders : handlePlayAgain(s)
    \/ \E s \in Senders : routerCatches(s)
    \/ \E n \in Names, state \in LobbyPhases : gameAdvance(n, state)

SpecLobby == Init /\ [][NextLobby]_vars

\* Narration and its timers, for one session name and two clients, one the
\* creator and one a spectator.
NextTimers ==
    \/ HostEvent(Senders, OneWord)
    \/ \E s \in Senders, voiceLine \in VoiceLines, durationSec \in DurationsSec :
          handleUpdateVoiceDuration(s, voiceLine, durationSec)
    \/ \E n \in Names, state \in ReadingPhases : gameAdvance(n, state)
    \/ \E n \in Names, voiceLine \in VoiceLines : playVoice(n, voiceLine)
    \/ \E n \in Names, shown \in BOOLEAN : setAnnouncement(n, shown)
    \/ \E n \in Names, kind \in SessionTimeoutType, durationSec \in DurationsSec :
          startTimeout(n, kind, durationSec)
    \/ \E t \in timeouts : timeoutFired(t)

SpecTimers == Init /\ [][NextTimers]_vars

\* Leaving and teardown while timers are armed, for one session name and two
\* clients.
NextTeardown ==
    \/ HostEvent(Senders, OneWord)
    \/ \E n \in Names, state \in LobbyPhases : gameAdvance(n, state)
    \/ \E n \in Names, kind \in SessionTimeoutType, durationSec \in DurationsSec :
          startTimeout(n, kind, durationSec)
    \/ \E t \in timeouts : timeoutFired(t)

SpecTeardown == Init /\ [][NextTeardown]_vars

\* Name generation step by step: three connections, two words, sessions
\* created and left.  The generator is fair: while a loop runs, every word
\* keeps being produced.
NextConnect ==
    \/ \E s \in Sockets, w \in Words : connectIteration(s, w)
    \/ Idle /\ \E s \in Sockets, name \in Names : handleAttemptSpectate(s, name)
    \/ Idle /\ \E s \in Sockets : handleLeaveSession(s)

FairGenerator ==
    \A w \in Words :
       WF_vars(~Idle /\ \E s \in Sockets : connectIteration(s, w))

SpecConnect == Init /\ [][NextConnect]_vars /\ FairGenerator

\* ---------------------------------------------------------------------- claims

ErrorTexts == {"error: couldn't find session", "error: already a host",
               "error: generation", "error: server"}

IsErrorMessageTo(e, s) ==
    e.type = "Message" /\ e.to = {s} /\ e.arg \in ErrorTexts

\* The session a routed event of connection s is dispatched to.
RoutedName(s) == sock[s].sessionName
RoutedSession(s) == getSession(sock[s].sessionName)

CallsTo(cs, fn) == {c \in SeqToSet(cs) : c.fn = fn}

\* C1: a Connect that returns created its session under a name the registry
\* did not hold: the name was absent before, holds a session of the connecting
\* socket after, every other name keeps its session, and the number of live
\* sessions grows by one (no live session is replaced or shares its name).
C1_ConnectTakesFreeName ==
    [][(ev'.op = "Connect" /\ ~hung') =>
          /\ Len(calls') = 1
          /\ \A c \in CallsTo(calls', "createSession") :
                /\ c.name \in Names
                /\ sessions[c.name] = NoSession
                /\ sessions'[c.name] # NoSession
                /\ sessions'[c.name].creatorSocketID = ev'.socket
                /\ sock'[ev'.socket].sessionName = c.name
                /\ \A m \in Names \ {c.name} : sessions'[m] = sessions[m]
          /\ CallsTo(calls', "createSession") # {}
          /\ Cardinality(LiveNames') = Cardinality(LiveNames) + 1]_vars

\* A session created while another one is live.
C1_Witness ==
    /\ ev.op = "Connect"
    /\ ~hung
    /\ CallsTo(calls, "createSession") # {}
    /\ Cardinality(LiveNames) = 2

SettingsEvent(s) ==
    {Event("UpdateGameSettingsPreset", s), Event("GenerateCustomGame", s)}

NoEffect ==
    /\ sessions' = sessions
    /\ pending' = pending
    /\ timeouts' = timeouts
    /\ out' = <<>>
    /\ calls' = <<>>

\* C2: an UpdateGameSettingsPreset or GenerateCustomGame event of a
\* connection that is not the creator of its session changes no session,
\* starts no generation and emits nothing.
C2_SingleAuthority ==
    [][\A s \in Sockets :
          (/\ ev' \in SettingsEvent(s)
           /\ RoutedSession(s) # NoSession
           /\ s # RoutedSession(s).creatorSocketID)
          => NoEffect]_vars

\* A host that is not the creator has asked for a preset in the lobby.
C2_Witness ==
    /\ ev.op = "UpdateGameSettingsPreset"
    /\ RoutedSession(ev.socket) # NoSession
    /\ RoutedSession(ev.socket).state = "Lobby"
    /\ ev.socket # RoutedSession(ev.socket).creatorSocketID
    /\ ev.socket \in RoutedSession(ev.socket).hosts
    /\ out = <<>>

\* C3: outside the Lobby state an UpdateGameSettingsPreset or
\* GenerateCustomGame event, the creator's included, changes no session,
\* does not call the generator and emits nothing.
C3_StateGuard ==
    [][\A s \in Sockets :
          (/\ ev' \in SettingsEvent(s)
           /\ RoutedSession(s) # NoSession
           /\ RoutedSession(s).state # "Lobby")
          => NoEffect]_vars

\* The creator has asked for a custom game while the game was running.
C3_Witness ==
    /\ ev.op = "GenerateCustomGame"
    /\ RoutedSession(ev.socket) # NoSession
    /\ RoutedSession(ev.socket).state # "Lobby"
    /\ ev.socket = RoutedSession(ev.socket).creatorSocketID
    /\ calls = <<>>
    /\ pending = {}

\* C4: a duration report for a voice line other than the session's current
\* one makes no restartTimeout call and leaves every timer as it is, in any
\* session state.
C4_StaleReportRestartsNothing ==
    [][\A s \in Sockets, voiceLine \in VoiceLines, durationSec \in DurationsSec :
          (/\ handleUpdateVoiceDuration(s, voiceLine, durationSec)
           /\ RoutedSession(s) # NoSession
           /\ voiceLine # RoutedSession(s).currentVoiceLine)
          => (calls' = <<>> /\ timeouts' = timeouts)]_vars

\* The creator reported a duration while a line was being read in a reading
\* phase with its timer armed, and no restart was made: the report named
\* another line (for the current line the phase's restart would be in calls).
C4_Witness ==
    /\ ev.op = "UpdateVoiceDuration"
    /\ RoutedSession(ev.socket) # NoSession
    /\ ev.socket = RoutedSession(ev.socket).creatorSocketID
    /\ RoutedSession(ev.socket).currentVoiceLine \in VoiceLines
    /\ RoutedSession(ev.socket).state = "ReadingClue"
    /\ TimersOf(timeouts, RoutedName(ev.socket), "ReadingClue") # {}
    /\ calls = <<>>

\* The timeout kind the design maps a state to.
MappedKinds(state) ==
    CASE state = "ReadingCategoryNames" -> {"ReadingCategoryName"}
      [] state = "ReadingClueSelection" -> {"ReadingClueSelection"}
      [] state = "ReadingClue" -> {"ReadingClue"}
      [] OTHER -> {}

PhaseKindsOf(cs) ==
    {c.kind : c \in CallsTo(cs, "restartTimeout")} \ {"Announcement"}

\* C5: an accepted duration report restarts exactly the phase timeout its
\* state maps to, and none in the other states.
C5_DispatchByState ==
    [][\A s \in Sockets, voiceLine \in VoiceLines, durationSec \in DurationsSec :
          (/\ handleUpdateVoiceDuration(s, voiceLine, durationSec)
           /\ acceptsDuration(s, RoutedSession(s), voiceLine))
          => PhaseKindsOf(calls') = MappedKinds(RoutedSession(s).state)]_vars

C7_TeardownCancelsTimers ==
    [][/\ \A t \in timeouts' : sessions'[t.session] # NoSession
       /\ ev'.op = "TimeoutFired" =>
             \A c \in CallsTo(calls', "onFire") :
                sessions[c.session] # NoSession
       /\ \A s \in Sockets :
             (/\ ev' = Event("LeaveSession", s)
              /\ RoutedSession(s) # NoSession
              /\ s = RoutedSession(s).creatorSocketID)
             => /\ sessions'[RoutedName(s)] = NoSession
                /\ \A t \in timeouts' : t.session # RoutedName(s)
       /\ \A n \in Names :
             (sessions[n] = NoSession /\ sessions'[n] # NoSession)
             => ev'.op = "Connect"]_vars

\* The creator has left a session that had timers armed.
C7_Witness ==
    /\ ev.op = "LeaveSession"
    /\ \E c \in CallsTo(calls, "deleteSession") : c.cancelled # {}
    /\ getSession(RoutedName(ev.socket)) = NoSession
    /\ timeouts = {}

\* C8: the creator's LeaveSession removes the session from the registry and
\* sends one CancelGame, to every other host of the session and every other
\* connection routed to it, and not to the creator.
C8_CreatorLeaveCascade ==
    [][\A s \in Sockets :
          (/\ ev' = Event("LeaveSession", s)
           /\ RoutedSession(s) # NoSession
           /\ s = RoutedSession(s).creatorSocketID)
          => /\ sessions'[RoutedName(s)] = NoSession
             /\ Len(out') = 1
             /\ out'[1].type = "CancelGame"
             /\ s \notin out'[1].to
             /\ RoutedSession(s).hosts \ {s} \subseteq out'[1].to
             /\ {x \in Sockets \ {s} : RoutedName(x) = RoutedName(s)}
                   \subseteq out'[1].to]_vars

\* A creator has left and both other connections were told.
C8_Witness ==
    /\ ev.op = "LeaveSession"
    /\ CallsTo(calls, "deleteSession") # {}
    /\ Len(out) = 1
    /\ out[1].type = "CancelGame"
    /\ out[1].to = Sockets \ {ev.socket}

\* C9: a LeaveSession of a connection that is not the creator of its session
\* removes the connection from the session's hosts and changes nothing else:
\* the session stays in the registry with its other fields, the timers, the
\* connections and the suspended handlers are as before, nothing is emitted.
C9_NonCreatorLeave ==
    [][\A s \in Sockets :
          (/\ ev' = Event("LeaveSession", s)
           /\ RoutedSession(s) # NoSession
           /\ s # RoutedSession(s).creatorSocketID)
          => /\ sessions' = [sessions EXCEPT ![RoutedName(s)].hosts = @ \ {s}]
             /\ timeouts' = timeouts
             /\ sock' = sock
             /\ pending' = pending
             /\ out' = <<>>]_vars

\* A spectating host has left a running session that has a timer armed.
C9_Witness ==
    /\ ev.op = "LeaveSession"
    /\ calls = <<[fn |-> "disconnectHost", removed |-> TRUE]>>
    /\ RoutedSession(ev.socket) # NoSession
    /\ ev.socket # RoutedSession(ev.socket).creatorSocketID
    /\ RoutedSession(ev.socket).state # "Lobby"
    /\ timeouts # {}

\* C10: an AttemptSpectate naming a session that is not in the registry, or
\* one the connection is already a host of, sends the connection one
\* error-flagged Message and changes no session, connection or timer.
C10_SpectateRejections ==
    [][\A s \in Sockets, name \in Names :
          (/\ handleAttemptSpectate(s, name)
           /\ \/ getSession(name) = NoSession
              \/ s \in getSession(name).hosts)
          => /\ Len(out') = 1
             /\ IsErrorMessageTo(out'[1], s)
             /\ sessions' = sessions
             /\ sock' = sock
             /\ timeouts' = timeouts
             /\ pending' = pending]_vars

\* A connection routed to one live session was refused as a spectator of
\* another live session it is already a host of.
C10_Witness ==
    /\ ev.op = "AttemptSpectate"
    /\ out = <<Emission("Message", {ev.socket}, "error: already a host")>>
    /\ RoutedSession(ev.socket) # NoSession
    /\ \E n \in LiveNames \ {RoutedName(ev.socket)} :
          ev.socket \in sessions[n].hosts

HostedBy(s) == {n \in LiveNames : s \in sessions[n].hosts}

\* C11: in every reachable state each connection is among the hosts of at
\* most one live session.
C11_OneSessionPerConnection ==
    \A s \in Sockets : Cardinality(HostedBy(s)) <= 1

EmissionTypes(es) == [i \in 1..Len(es) |-> es[i].type]

\* C12: a PlayAgain changes nothing, resets nothing and emits nothing unless
\* its session exists and is in GameOver; from GameOver it calls resetGame,
\* which leaves the session in Lobby, and then emits the state update, the
\* trivia round update and the leaderboard update in that order.
C12_PlayAgain ==
    [][\A s \in Sockets :
          ev' = Event("PlayAgain", s) =>
             IF RoutedSession(s) # NoSession /\ RoutedSession(s).state = "GameOver"
             THEN /\ sessions' = [sessions EXCEPT ![RoutedName(s)].state = "Lobby"]
                  /\ calls' = <<[fn |-> "resetGame", name |-> RoutedName(s)]>>
                  /\ EmissionTypes(out') =
                        <<"StateUpdate", "TriviaRoundUpdate", "LeaderboardUpdate">>
                  /\ out'[3].to = {s}
                  /\ UNCHANGED <<timeouts, sock, pending>>
             ELSE NoEffect]_vars

\* A finished game has been reset to the lobby.
C12_Witness ==
    /\ ev.op = "PlayAgain"
    /\ CallsTo(calls, "resetGame") # {}
    /\ RoutedSession(ev.socket) # NoSession
    /\ RoutedSession(ev.socket).state = "Lobby"
    /\ Len(out) = 3

IsAck(e) == e.type = "Ack"

IsSessionBroadcast(e) ==
    e.type \in {"UpdateGameSettingsPreset", "TriviaRoundUpdate"}

Broadcasts(es) == SelectSeq(es, IsSessionBroadcast)

MovedOn(p) ==
    \/ ~p.attached
    \/ sessions[p.name].state # "Lobby"

\* C14: when generation completes for a handler whose session was torn down
\* or left Lobby while it was suspended, the handler changes no session and
\* broadcasts neither the Custom preset nor a trivia round update.
C14_LateResultsValidated ==
    [][\A p \in pending :
          (resumeGenerateCustomGame(p, TRUE) /\ MovedOn(p)) =>
             /\ sessions' = sessions
             /\ Broadcasts(out') = <<>>]_vars

C19_DurationAuthority ==
    [][\A s \in Sockets, voiceLine \in VoiceLines, durationSec \in DurationsSec :
          (/\ handleUpdateVoiceDuration(s, voiceLine, durationSec)
           /\ \/ RoutedSession(s) = NoSession
              \/ s # RoutedSession(s).creatorSocketID)
          => /\ calls' = <<>>
             /\ timeouts' = timeouts
             /\ sessions' = sessions
             /\ out' = <<>>]_vars

\* A spectating host has reported a duration while a line was being read in
\* ReadingClue with the phase timer armed.
C19_Witness ==
    /\ ev.op = "UpdateVoiceDuration"
    /\ RoutedSession(ev.socket) # NoSession
    /\ ev.socket # RoutedSession(ev.socket).creatorSocketID
    /\ ev.socket \in RoutedSession(ev.socket).hosts
    /\ RoutedSession(ev.socket).currentVoiceLine \in VoiceLines
    /\ RoutedSession(ev.socket).state = "ReadingClue"
    /\ TimersOf(timeouts, RoutedName(ev.socket), "ReadingClue") # {}

\* C16: an applied preset change is sent to the hosts of the session other
\* than the acting connection and to nobody else; a voice-type event of any
\* connection, in any state of an existing session, sets the voice type and
\* is sent to all hosts of the session, the acting connection among them
\* when it is a host.
C16_BroadcastAudiences ==
    [][\A s \in Sockets :
          /\ (/\ ev' = Event("UpdateGameSettingsPreset", s)
              /\ mayUpdatePreset(s, RoutedSession(s)))
             => /\ Len(out') = 1
                /\ out'[1].type = "UpdateGameSettingsPreset"
                /\ out'[1].to = RoutedSession(s).hosts \ {s}
                /\ sessions' = [sessions EXCEPT
                      ![RoutedName(s)].triviaGameSettingsPreset = out'[1].arg]
          /\ (/\ ev' = Event("UpdateVoiceType", s)
              /\ RoutedSession(s) # NoSession)
             => /\ Len(out') = 1
                /\ out'[1].type = "UpdateVoiceType"
                /\ out'[1].to = RoutedSession(s).hosts
                /\ sessions' = [sessions EXCEPT
                      ![RoutedName(s)].voiceType = out'[1].arg]]_vars

\* A spectating host has changed the voice type of a running game and the
\* creator and the spectator were both told.
C16_Witness ==
    /\ ev.op = "UpdateVoiceType"
    /\ RoutedSession(ev.socket) # NoSession
    /\ RoutedSession(ev.socket).state # "Lobby"
    /\ ev.socket # RoutedSession(ev.socket).creatorSocketID
    /\ Len(out) = 1
    /\ out[1].to = {ev.socket, RoutedSession(ev.socket).creatorSocketID}
    /\ RoutedSession(ev.socket).voiceType = "ModernMasculine"

\* C17: no exception leaves handleHostEvent uncaught, whether a handler
\* throws while the router's call of it is running or after it resumed from
\* its await; an exception the router catches is reported to the originating
\* connection as an error message and changes no session.
C17_RouterErrorContainment ==
    [][/\ CallsTo(calls', "unhandledRejection") = {}
       /\ \A s \in Sockets :
             ev' = Event("HandlerThrew", s) =>
                /\ Len(out') = 1
                /\ IsErrorMessageTo(out'[1], s)
                /\ sessions' = sessions]_vars

\* C18: an AttemptSpectate that is not rejected ends with the connection
\* among the hosts of the target session, which is still in the registry,
\* and out of the session it was routed to before: that session is deleted
\* when the connection was its creator, and has lost the connection from its
\* hosts otherwise.
C18_SpectatePostcondition ==
    [][\A s \in Sockets, name \in Names :
          (/\ handleAttemptSpectate(s, name)
           /\ ~spectateRejected(s, getSession(name)))
          => /\ sessions'[name] # NoSession
             /\ s \in sessions'[name].hosts
             /\ (RoutedName(s) # name /\ RoutedSession(s) # NoSession)
                => IF s = RoutedSession(s).creatorSocketID
                   THEN sessions'[RoutedName(s)] = NoSession
                   ELSE s \notin sessions'[RoutedName(s)].hosts]_vars

\* C20: a Connect whose loop is repeating while some word is free ends, and
\* it ends having created exactly one session, in Lobby, with the connecting
\* socket as its creator and only host, under a name that was free; while
\* every word is taken a repeating loop only repeats.
C20_NameGenerationTerminates ==
    /\ \A s \in Sockets :
          (ev = Event("ConnectRetry", s) /\ LiveNames # Words)
             ~> (ev = Event("Connect", s))
    /\ [][/\ ev'.op = "Connect" =>
                \E w \in Words :
                   /\ sessions[w] = NoSession
                   /\ sessions' = [sessions EXCEPT ![w] = newSession(ev'.socket)]
                   /\ sessions'[w].state = "Lobby"
                   /\ sessions'[w].creatorSocketID = ev'.socket
                   /\ ev'.socket \in sessions'[w].hosts
          /\ (ev.op = "ConnectRetry" /\ LiveNames = Words) =>
                (ev'.op = "ConnectRetry" /\ sessions' = sessions)]_vars

\* A loop that had to repeat has ended with a new session.
C20_Witness ==
    /\ ev.op = "Connect"
    /\ \E c \in CallsTo(calls, "createSession") :
          /\ c.afterRetry
          /\ sessions[c.name] # NoSession
          /\ sessions[c.name].creatorSocketID = ev.socket

====
